---- MODULE Spec2Model ----
(***************************************************************************)
(* Earnings-call transcript pipeline: the three-stage deduplication of     *)
(* data_processing/02_clean_data.py, the event aggregator of               *)
(* data_processing/03_prepare_for_sentiment.py, the classification client  *)
(* and the batch orchestrator of sentiment_analysis/run_full_analysis.py,  *)
(* and the cost computation of config/pricing.py.                          *)
(*                                                                         *)
(* Tables are sequences of rows (records keyed by column name).  Strings   *)
(* that the code concatenates or sorts (headline, event_id) are sequences  *)
(* of character codes, so that concatenation and lexicographic order are   *)
(* computed as Python computes them.                                       *)
(***************************************************************************)
EXTENDS Integers, Sequences, FiniteSets, TLC

VARIABLES
    pc,              \* position of the cleaning / aggregation scripts
    df,              \* 02_clean_data.py: the table loaded from transcripts_first100.pkl
    df_stage1,       \* 02_clean_data.py: output of Stage 1 (gets the event_id column in Stage 2)
    df_stage2,       \* 02_clean_data.py: output of Stage 2
    df_clean,        \* 02_clean_data.py: output of Stage 3
    verification,    \* 02_clean_data.py: what the verification pass printed
    cleaned_file,    \* transcripts_cleaned.pkl on disk
    df_filtered,     \* 03_prepare_for_sentiment.py: filtered (then sorted) table
    df_aggregated,   \* 03_prepare_for_sentiment.py: one row per transcriptid
    rq_pc,           \* analyze_with_retry: position of the one call being followed
    attempt,         \* analyze_with_retry: the loop variable
    sleep_s,         \* analyze_with_retry: seconds of the backoff being slept
    result,          \* analyze_with_retry: the returned dictionary
    completed_count, \* ProductionSentimentAnalyzer.completed_count
    failed_count,    \* ProductionSentimentAnalyzer.failed_count
    session_costs,   \* CostLogger.session_costs (the entries appended to the cost log)
    response,        \* analyze_with_retry: the last response the call received
    endpoint_log,    \* what the endpoint did on each attempt of the call, in order
    cost_pc,         \* ModelPricing.calculate_cost: position of the call being followed
    cost_args,       \* ModelPricing.calculate_cost: its arguments
    cost_breakdown,  \* ModelPricing.calculate_cost: the dictionary it returned
    run_pc,          \* analyze_full_dataset: position of the orchestrator
    data_file,       \* analyze_full_dataset: the aggregated dataset on disk (data_path)
    batch_size,      \* analyze_full_dataset: argument
    save_every,      \* analyze_full_dataset: argument
    total_count,     \* ProductionSentimentAnalyzer.total_count
    batch_start,     \* analyze_full_dataset: the loop variable
    requests,        \* analyze_full_dataset: the analyze_with_retry call of each event
    completion_order,\* the events of the current batch in the order their calls returned
    all_results,     \* analyze_full_dataset: the accumulated result dictionaries
    output_file      \* analyze_full_dataset: the results table on disk (output_path)

pipeline_vars == <<pc, df, df_stage1, df_stage2, df_clean, verification, cleaned_file,
                   df_filtered, df_aggregated>>

client_vars == <<rq_pc, attempt, sleep_s, result, completed_count, failed_count,
                 session_costs, response, endpoint_log>>

pricing_vars == <<cost_pc, cost_args, cost_breakdown>>

run_vars == <<run_pc, data_file, batch_size, save_every, total_count, batch_start,
              requests, completion_order, all_results, output_file>>

\* what the cleaning and aggregation scripts leave alone
not_pipeline_vars == <<client_vars, pricing_vars, run_vars>>

\* what a call of analyze_with_retry leaves alone
not_client_vars == <<pipeline_vars, pricing_vars, run_vars>>

vars == <<pipeline_vars, client_vars, pricing_vars, run_vars>>

----------------------------------------------------------------------------
(* Bounds of the input table *)

MaxRows == 3

TranscriptIds == {1, 2}

\* (companyid, headline, mostimportantdateutc); headline "a" is <<97>>, "a|1" is <<97,124,49>>
EventKeys ==
    { <<1, <<97>>, 1>>, <<1, <<97, 124, 49>>, 2>>, <<2, <<97>>, 1>> }

\* (componenttext, speakertypename, transcriptcomponenttypename)
Components ==
    { <<"A", "Executives", "Presenter Speech">>,
      <<"B", "Executives", "Presenter Speech">>,
      <<"B", "Executives", "Answer">> }

\* a file that does not exist, and a file holding a pickled table
NoFile == [exists |-> FALSE, rows |-> <<>>]

FileOf(t) == [exists |-> TRUE, rows |-> t]

----------------------------------------------------------------------------
(* Generic table helpers (pandas semantics) *)

\* Rows of df at the positions in I, in table order (boolean-mask selection).
Pick(t, I) ==
    [k \in 1..Cardinality(I) |->
        t[CHOOSE i \in I : Cardinality({j \in I : j <= i}) = k]]

\* DataFrame.drop_duplicates(subset=subset, keep='first'); subset is a set of columns
drop_duplicates(t, subset) ==
    Pick(t, {i \in DOMAIN t :
                \A j \in 1..(i - 1) : \E c \in subset : t[j][c] # t[i][c]})

RECURSIVE Concat(_)
\* pd.concat of a sequence of tables
Concat(ts) == IF ts = <<>> THEN <<>> ELSE Head(ts) \o Concat(Tail(ts))

\* str(n) of a natural number, as character codes
RECURSIVE Str(_)
Str(n) == IF n < 10 THEN <<48 + n>> ELSE Str(n \div 10) \o <<48 + (n % 10)>>

\* Python's str < str: lexicographic on code points
RECURSIVE StrLess(_, _)
StrLess(a, b) ==
    IF b = <<>> THEN FALSE
    ELSE IF a = <<>> THEN TRUE
    ELSE IF Head(a) # Head(b) THEN Head(a) < Head(b)
    ELSE StrLess(Tail(a), Tail(b))

\* The elements of a finite set of strings in ascending order (groupby sorts its keys)
RECURSIVE SortedStrs(_)
SortedStrs(S) ==
    IF S = {} THEN <<>>
    ELSE LET m == CHOOSE x \in S : \A y \in S \ {x} : StrLess(x, y)
         IN  <<m>> \o SortedStrs(S \ {m})

----------------------------------------------------------------------------
(* 02_clean_data.py *)

\* companyid.astype(str) + '|' + headline.astype(str) + '|' + mostimportantdateutc.astype(str)
event_id(r) ==
    Str(r.companyid) \o <<124>> \o r.headline \o <<124>> \o Str(r.mostimportantdateutc)

Stage1Key == {"transcriptid", "componenttext"}

\* DataFrame.drop_duplicates(subset=subset, keep='last')
drop_duplicates_last(t, subset) ==
    Pick(t, {i \in DOMAIN t :
                \A j \in (i + 1)..Len(t) : \E c \in subset : t[j][c] # t[i][c]})

\* Stage 1 written with keep='last'
Stage1Table_keep_last(t) == drop_duplicates_last(t, Stage1Key)

Stage1Table(t) == drop_duplicates(t, Stage1Key)

\* df_stage1['event_id'] = ...
WithEventId(t) == [i \in DOMAIN t |-> t[i] @@ [event_id |-> event_id(t[i])]]

\* Stage 2 without the drop of the temporary column
DropEventId_forgotten(t) == t

\* df.drop(columns=['event_id'])
DropEventId(t) ==
    [i \in DOMAIN t |-> [c \in DOMAIN t[i] \ {"event_id"} |-> t[i][c]]]

\* df_stage1.groupby('event_id')['transcriptid'].nunique()
event_transcript_counts(t) ==
    [e \in {t[i].event_id : i \in DOMAIN t} |->
        Cardinality({t[i].transcriptid : i \in {j \in DOMAIN t : t[j].event_id = e}})]

TextKey == {"componenttext"}

\* the merge loop without the transcript id reassignment (as in src/clean_data.py)
merged_event_no_reassign(t, e) ==
    drop_duplicates(Pick(t, {i \in DOMAIN t : t[i].event_id = e}), TextKey)

\* the merge loop keeping the first version only instead of the union of the versions
merged_event_first_version(t, e) ==
    LET event_data == Pick(t, {i \in DOMAIN t : t[i].event_id = e})
    IN  Pick(event_data, {i \in DOMAIN event_data :
                             event_data[i].transcriptid = event_data[1].transcriptid})

\* the merge loop taking the smallest transcript id of the event instead of the first
merged_event_min_id(t, e) ==
    LET event_data == Pick(t, {i \in DOMAIN t : t[i].event_id = e})
        merged == drop_duplicates(event_data, TextKey)
        unified_transcript_id ==
            CHOOSE x \in {merged[i].transcriptid : i \in DOMAIN merged} :
                \A i \in DOMAIN merged : x <= merged[i].transcriptid
    IN  [i \in DOMAIN merged |-> [merged[i] EXCEPT !.transcriptid = unified_transcript_id]]

\* body of the merge loop for one multi-version event
merged_event(t, e) ==
    LET event_data == Pick(t, {i \in DOMAIN t : t[i].event_id = e})
        merged == drop_duplicates(event_data, TextKey)
        unified_transcript_id == merged[1].transcriptid
    IN  [i \in DOMAIN merged |-> [merged[i] EXCEPT !.transcriptid = unified_transcript_id]]

Stage2Table(t) ==
    LET counts == event_transcript_counts(t)
        multi_version_events == SortedStrs({e \in DOMAIN counts : counts[e] > 1})
        merged_data == [k \in DOMAIN multi_version_events |->
                            merged_event(t, multi_version_events[k])]
        single_version_event_ids == {e \in DOMAIN counts : counts[e] = 1}
        single_version_events ==
            Pick(t, {i \in DOMAIN t : t[i].event_id \in single_version_event_ids})
    IN  DropEventId(single_version_events \o Concat(merged_data))

Stage3Key == {"companyid", "componenttext"}

\* Stage 3 deduplicating per transcript instead of per company
Stage3Table_per_transcript(t) == drop_duplicates(t, Stage1Key)

Stage3Table(t) == drop_duplicates(t, Stage3Key)

\* the verification pass: (number of events with several transcript ids,
\*                         total_events, number of transcript ids)
Verify(t) ==
    LET chk == WithEventId(t)
        counts == event_transcript_counts(chk)
    IN  [still_multi |-> Cardinality({e \in DOMAIN counts : counts[e] > 1}),
         total_events |-> Cardinality(DOMAIN counts),
         transcript_ids |-> Cardinality({t[i].transcriptid : i \in DOMAIN t})]

\* what the verification pass prints: a warning or a success line for each of its two checks
VerificationOutput(t) ==
    LET v == Verify(t)
    IN  << IF v.still_multi > 0 THEN "WARNING: events still have multiple transcript IDs"
           ELSE "SUCCESS: All events now have SINGLE transcript ID",
           IF v.total_events = v.transcript_ids THEN "Perfect 1:1 mapping"
           ELSE "Mismatch between events and transcript IDs" >>

----------------------------------------------------------------------------
(* 03_prepare_for_sentiment.py *)

FilterTable(t) ==
    Pick(t, {i \in DOMAIN t : /\ t[i].speakertypename = "Executives"
                              /\ t[i].transcriptcomponenttypename = "Presenter Speech"})

\* lexicographic order on (transcriptid, componentorder)
SortKeyLess(a, b) ==
    \/ a.transcriptid < b.transcriptid
    \/ a.transcriptid = b.transcriptid /\ a.componentorder < b.componentorder

\* df.sort_values(['transcriptid', 'componentorder']): a stable sort (numpy lexsort)
sort_values(t) ==
    LET rank(i) == 1 + Cardinality({j \in DOMAIN t :
                        \/ SortKeyLess(t[j], t[i])
                        \/ ~SortKeyLess(t[i], t[j]) /\ j < i})
    IN  [k \in DOMAIN t |-> t[CHOOSE i \in DOMAIN t : rank(i) = k]]

\* '\n\n'.join(texts)
RECURSIVE join(_)
join(texts) ==
    IF texts = <<>> THEN ""
    ELSE IF Len(texts) = 1 THEN texts[1]
    ELSE texts[1] \o "\n\n" \o join(Tail(texts))

\* the rows of one groupby('transcriptid') group, in table order
Group(t, tid) == Pick(t, {i \in DOMAIN t : t[i].transcriptid = tid})

\* the aggregated row of one group
AggregatedRow(tid, group) ==
    [companyid |-> group[1].companyid,
     transcriptid |-> tid,
     headline |-> group[1].headline,
     event_date |-> group[1].mostimportantdateutc,
     presentation_text |-> join([i \in DOMAIN group |-> group[i].componenttext]),
     num_speeches |-> Len(group)]

\* the elements of a finite set of integers in ascending order (groupby sorts its keys)
RECURSIVE SortedInts(_)
SortedInts(S) ==
    IF S = {} THEN <<>>
    ELSE LET m == CHOOSE x \in S : \A y \in S : x <= y
         IN  <<m>> \o SortedInts(S \ {m})

AggregateTable(t) ==
    LET tids == SortedInts({t[i].transcriptid : i \in DOMAIN t})
    IN  [k \in DOMAIN tids |-> AggregatedRow(tids[k], Group(t, tids[k]))]

----------------------------------------------------------------------------
(* The classification client is not part of the cleaning scripts *)

\* JSON values of a field of the body: absent, a string, a number
Absent == [kind |-> "absent", str |-> "", num |-> 0]

JStr(x) == [kind |-> "str", str |-> x, num |-> 0]

JNum(n) == [kind |-> "num", str |-> "", num |-> n]

\* message.content: not JSON, a JSON array, or a JSON object with some of the fields
EmptyObject ==
    [kind |-> "object", sentiment |-> Absent, positive_prob |-> Absent,
     negative_prob |-> Absent, neutral_prob |-> Absent, reasoning |-> Absent]

\* no response received yet
NoResponse ==
    [content |-> [EmptyObject EXCEPT !.kind = "none"],
     prompt_tokens |-> 0, completion_tokens |-> 0]

\* no dictionary returned yet
NoResult ==
    [sentiment |-> "", positive_prob |-> 0, negative_prob |-> 0, neutral_prob |-> 0,
     reasoning |-> "", input_tokens |-> 0, output_tokens |-> 0, total_tokens |-> 0,
     cost |-> 0, success |-> FALSE, attempts |-> 0]

\* no call of calculate_cost is being followed
NoBreakdown == [input_cost |-> 0, cached_cost |-> 0, output_cost |-> 0, total_cost |-> 0]

NoArgs == [input_tokens |-> 0, output_tokens |-> 0, cached_tokens |-> 0]

PricingOff ==
    /\ cost_pc = "off"
    /\ cost_args = NoArgs
    /\ cost_breakdown = NoBreakdown

\* analyze_full_dataset is not running
RunOff ==
    /\ run_pc = "off"
    /\ data_file = NoFile
    /\ batch_size = 1
    /\ save_every = 1
    /\ total_count = 0
    /\ batch_start = 0
    /\ requests = <<>>
    /\ completion_order = <<>>
    /\ all_results = <<>>
    /\ output_file = NoFile

ClientOff ==
    /\ rq_pc = "off"
    /\ attempt = 0
    /\ sleep_s = 0
    /\ result = NoResult
    /\ completed_count = 0
    /\ failed_count = 0
    /\ session_costs = <<>>
    /\ response = NoResponse
    /\ endpoint_log = <<>>

----------------------------------------------------------------------------
(* Input tables: component_order numbers the components of a transcript in  *)
(* input order.                                                             *)

RawRow(k, tid, c) ==
    [companyid |-> k[1], headline |-> k[2], mostimportantdateutc |-> k[3],
     transcriptid |-> tid, componenttext |-> c[1],
     speakertypename |-> c[2], transcriptcomponenttypename |-> c[3]]

RawRows == {RawRow(k, tid, c) : k \in EventKeys, tid \in TranscriptIds, c \in Components}

WithOrder(t) ==
    [i \in DOMAIN t |->
        t[i] @@ [componentorder |->
            Cardinality({j \in 1..(i - 1) : t[j].transcriptid = t[i].transcriptid})]]

InputTables == UNION {[1..n -> RawRows] : n \in 0..MaxRows}

Init ==
    /\ pc = "loaded"
    /\ df \in {WithOrder(t) : t \in InputTables}
    /\ df_stage1 = <<>>
    /\ df_stage2 = <<>>
    /\ df_clean = <<>>
    /\ verification = <<>>
    /\ cleaned_file = NoFile
    /\ df_filtered = <<>>
    /\ df_aggregated = <<>>
    /\ ClientOff
    /\ PricingOff
    /\ RunOff

\* STAGE 1; its summary divides by stage1_before, the number of loaded rows
Stage1 ==
    /\ pc = "loaded"
    /\ IF df = <<>>
       THEN /\ pc' = "crashed"
            /\ UNCHANGED df_stage1
       ELSE /\ df_stage1' = Stage1Table(df)
            /\ pc' = "stage1"
    /\ UNCHANGED not_pipeline_vars
    /\ UNCHANGED <<df, df_stage2, df_clean, verification, cleaned_file,
                   df_filtered, df_aggregated>>

Stage2 ==
    /\ pc = "stage1"
    /\ df_stage1' = WithEventId(df_stage1)
    /\ df_stage2' = Stage2Table(df_stage1')
    /\ pc' = "stage2"
    /\ UNCHANGED not_pipeline_vars
    /\ UNCHANGED <<df, df_clean, verification, cleaned_file, df_filtered, df_aggregated>>

Stage3 ==
    /\ pc = "stage2"
    /\ df_clean' = Stage3Table(df_stage2)
    /\ pc' = "stage3"
    /\ UNCHANGED not_pipeline_vars
    /\ UNCHANGED <<df, df_stage1, df_stage2, verification, cleaned_file,
                   df_filtered, df_aggregated>>

\* VERIFICATION: recompute the mapping and print the outcome; nothing else happens
Verification ==
    /\ pc = "stage3"
    /\ verification' = VerificationOutput(df_clean)
    /\ pc' = "verified"
    /\ UNCHANGED not_pipeline_vars
    /\ UNCHANGED <<df, df_stage1, df_stage2, df_clean, cleaned_file,
                   df_filtered, df_aggregated>>

\* FINAL SUMMARY and pickle.dump(df_clean) into transcripts_cleaned.pkl
SaveCleaned ==
    /\ pc = "verified"
    /\ cleaned_file' = FileOf(df_clean)
    /\ pc' = "cleaned"
    /\ UNCHANGED not_pipeline_vars
    /\ UNCHANGED <<df, df_stage1, df_stage2, df_clean, verification,
                   df_filtered, df_aggregated>>

\* 03_prepare_for_sentiment.py STEP 1: load transcripts_cleaned.pkl and filter
Filter ==
    /\ pc = "cleaned"
    /\ cleaned_file.exists
    /\ df_filtered' = FilterTable(cleaned_file.rows)
    /\ pc' = "filtered"
    /\ UNCHANGED not_pipeline_vars
    /\ UNCHANGED <<df, df_stage1, df_stage2, df_clean, verification, cleaned_file,
                   df_aggregated>>

\* 03_prepare_for_sentiment.py STEP 2: sort, group by transcriptid, join the texts
Aggregate ==
    /\ pc = "filtered"
    /\ df_filtered' = sort_values(df_filtered)
    /\ df_aggregated' = AggregateTable(df_filtered')
    /\ pc' = "aggregated"
    /\ UNCHANGED not_pipeline_vars
    /\ UNCHANGED <<df, df_stage1, df_stage2, df_clean, verification, cleaned_file>>

Next ==
    \/ Stage1
    \/ Stage2
    \/ Stage3
    \/ Verification
    \/ SaveCleaned
    \/ Filter
    \/ Aggregate

Spec == Init /\ [][Next]_vars

----------------------------------------------------------------------------
(* sentiment_analysis/run_full_analysis.py: ProductionSentimentAnalyzer     *)
(*                                                                          *)
(* Numbers of the endpoint's JSON body are multiples of 1/4 (exact binary   *)
(* floats), held as their number of quarters.  Probabilities of a returned  *)
(* dictionary are multiples of 0.001 (round(x, 3)), held as thousandths.    *)
(* Costs of a breakdown and of the cost log are held in hundred-millionths  *)
(* of a dollar, the cost of a returned dictionary in millionths of a dollar *)
(* (round(x, 6)).                                                           *)

max_retries == 3

\* MODEL_PRICING['gpt-4.1'], cents per million tokens
input_price == 300

cached_input_price == 75

output_price == 1200

\* largest number of quarters a probability field of the body holds
MaxProb == 4

\* token usage the endpoint reports
TokenCounts == {1, 2}

SentimentValues ==
    {Absent, JStr("positive"), JStr("Negative"), JStr("bullish"), JNum(1)}

ProbValues ==
    {Absent, JStr("high"), JStr("0.5")} \cup {JNum(n) : n \in (-1)..MaxProb}

ReasoningValues == {Absent, JStr("Revenue grew.")}

Bodies ==
    {[EmptyObject EXCEPT !.kind = "unparsable"], [EmptyObject EXCEPT !.kind = "array"]}
    \cup [kind : {"object"}, sentiment : SentimentValues, positive_prob : ProbValues,
          negative_prob : ProbValues, neutral_prob : ProbValues,
          reasoning : ReasoningValues]

Responses == [content : Bodies, prompt_tokens : TokenCounts, completion_tokens : {1}]

\* calculate_cost charging the cached tokens at the input price
calculate_cost_cached_at_input_price(input_tokens, output_tokens, cached_tokens) ==
    LET regular_input == IF input_tokens - cached_tokens > 0
                         THEN input_tokens - cached_tokens ELSE 0
        input_cost == regular_input * input_price
        cached_cost == cached_tokens * input_price
        output_cost == output_tokens * output_price
    IN  [input_cost |-> input_cost, cached_cost |-> cached_cost,
         output_cost |-> output_cost,
         total_cost |-> input_cost + cached_cost + output_cost]

\* ModelPricing.calculate_cost, in hundred-millionths of a dollar
\* (tokens / 1_000_000 * dollars = tokens * cents / 100_000_000)
calculate_cost(input_tokens, output_tokens, cached_tokens) ==
    LET regular_input == IF input_tokens - cached_tokens > 0
                         THEN input_tokens - cached_tokens ELSE 0
        input_cost == regular_input * input_price
        cached_cost == cached_tokens * cached_input_price
        output_cost == output_tokens * output_price
    IN  [input_cost |-> input_cost, cached_cost |-> cached_cost,
         output_cost |-> output_cost,
         total_cost |-> input_cost + cached_cost + output_cost]

\* the entry CostLogger.log_request appends
LogEntry(resp, n) ==
    [model |-> "gpt-4.1",
     input_tokens |-> resp.prompt_tokens,
     output_tokens |-> resp.completion_tokens,
     total_tokens |-> resp.prompt_tokens + resp.completion_tokens,
     cost |-> calculate_cost(resp.prompt_tokens, resp.completion_tokens, 0).total_cost,
     attempt |-> n]

\* json.loads(content), with {} when it raises
Parse(content) == IF content.kind = "unparsable" THEN EmptyObject ELSE content

\* dict.get(key, default)
Get(v, default) == IF v.kind = "absent" THEN default ELSE v

\* str.lower()
Lower(x) == IF x = "Negative" THEN "negative" ELSE x

\* float(v) succeeds on numbers and on strings that spell a number
Floatable(v) == v.kind = "num" \/ (v.kind = "str" /\ v.str = "0.5")

\* float(v), in quarters
Float(v) == IF v.kind = "num" THEN v.num ELSE 2

\* the nearest integer to num / den (den > 0), ties to the even one: Python's round
RoundHalfEven(num, den) ==
    LET q == num \div den
        r == num % den
    IN  IF 2 * r < den THEN q
        ELSE IF 2 * r > den THEN q + 1
        ELSE IF q % 2 = 0 THEN q ELSE q + 1

\* Normalize without the else branch that sets neu_prob = 1.0
Normalize_no_neutral_default(pos, neg, neu) ==
    LET total_prob == pos + neg + neu
    IN  IF total_prob > 0
        THEN [positive_prob |-> RoundHalfEven(1000 * pos, total_prob),
              negative_prob |-> RoundHalfEven(1000 * neg, total_prob),
              neutral_prob |-> RoundHalfEven(1000 * neu, total_prob)]
        ELSE [positive_prob |-> RoundHalfEven(1000 * pos, 4),
              negative_prob |-> RoundHalfEven(1000 * neg, 4),
              neutral_prob |-> RoundHalfEven(1000 * neu, 4)]

\* "Normalize probabilities": from quarters to the thousandths of round(x, 3)
Normalize(pos, neg, neu) ==
    LET total_prob == pos + neg + neu
    IN  IF total_prob > 0
        THEN [positive_prob |-> RoundHalfEven(1000 * pos, total_prob),
              negative_prob |-> RoundHalfEven(1000 * neg, total_prob),
              neutral_prob |-> RoundHalfEven(1000 * neu, total_prob)]
        ELSE [positive_prob |-> RoundHalfEven(1000 * pos, 4),
              negative_prob |-> RoundHalfEven(1000 * neg, 4),
              neutral_prob |-> 1000]

Raised(msg) == [raised |-> TRUE, error |-> msg, value |-> NoResult]

Returned(v) == [raised |-> FALSE, error |-> "", value |-> v]

\* lines 84-122: parse, validate, normalize and build the dictionary, or raise
ProcessResponse(resp, n) ==
    LET parsed == Parse(resp.content)
        s == Get(parsed.sentiment, JStr("neutral"))
        pos == Get(parsed.positive_prob, JNum(0))
        neg == Get(parsed.negative_prob, JNum(0))
        neu == Get(parsed.neutral_prob, JNum(0))
        sentiment == IF Lower(s.str) \in {"positive", "negative", "neutral"}
                     THEN Lower(s.str) ELSE "neutral"
        probs == Normalize(Float(pos), Float(neg), Float(neu))
    IN  IF parsed.kind = "array"
        THEN Raised("'list' object has no attribute 'get'")
        ELSE IF s.kind # "str"
        THEN Raised("'int' object has no attribute 'lower'")
        ELSE IF ~(Floatable(pos) /\ Floatable(neg) /\ Floatable(neu))
        THEN Raised("could not convert string to float: 'high'")
        ELSE Returned(
            [sentiment |-> sentiment,
             positive_prob |-> probs.positive_prob,
             negative_prob |-> probs.negative_prob,
             neutral_prob |-> probs.neutral_prob,
             reasoning |-> Get(parsed.reasoning, JStr("")).str,
             input_tokens |-> resp.prompt_tokens,
             output_tokens |-> resp.completion_tokens,
             total_tokens |-> resp.prompt_tokens + resp.completion_tokens,
             cost |-> RoundHalfEven(
                         calculate_cost(resp.prompt_tokens, resp.completion_tokens,
                                        0).total_cost, 100),
             success |-> TRUE,
             attempts |-> n])

\* ProductionSentimentAnalyzer._error_result
error_result(error_msg, attempts) ==
    [sentiment |-> "neutral", positive_prob |-> 0, negative_prob |-> 0,
     neutral_prob |-> 1000, reasoning |-> "Error: " \o error_msg,
     input_tokens |-> 0, output_tokens |-> 0, total_tokens |-> 0, cost |-> 0,
     success |-> FALSE, attempts |-> attempts]

RECURSIVE Pow2(_)
Pow2(n) == IF n = 0 THEN 1 ELSE 2 * Pow2(n - 1)

\* Failed giving up one attempt early (attempt + 1 < max_retries)
Failed_gives_up_early(error_msg) ==
    IF attempt + 1 < max_retries
    THEN /\ rq_pc' = "sleeping"
         /\ sleep_s' = Pow2(attempt)
         /\ UNCHANGED <<result, failed_count>>
    ELSE /\ rq_pc' = "returned"
         /\ failed_count' = failed_count + 1
         /\ result' = error_result(error_msg, attempt)
         /\ UNCHANGED sleep_s

\* an except clause that continues with the next attempt without sleeping
Failed_retries_at_once(error_msg) ==
    IF attempt < max_retries
    THEN /\ rq_pc' = "ready"
         /\ UNCHANGED <<sleep_s, result, failed_count>>
    ELSE /\ rq_pc' = "returned"
         /\ failed_count' = failed_count + 1
         /\ result' = error_result(error_msg, attempt)
         /\ UNCHANGED sleep_s

\* an except clause: back off and retry, or count the failure and return the placeholder
Failed(error_msg) ==
    IF attempt < max_retries
    THEN /\ rq_pc' = "sleeping"
         /\ sleep_s' = Pow2(attempt)
         /\ UNCHANGED <<result, failed_count>>
    ELSE /\ rq_pc' = "returned"
         /\ failed_count' = failed_count + 1
         /\ result' = error_result(error_msg, attempt)
         /\ UNCHANGED sleep_s

ClientInit ==
    /\ pc = "off"
    /\ df = <<>>
    /\ df_stage1 = <<>>
    /\ df_stage2 = <<>>
    /\ df_clean = <<>>
    /\ verification = <<>>
    /\ cleaned_file = NoFile
    /\ df_filtered = <<>>
    /\ df_aggregated = <<>>
    /\ rq_pc = "ready"
    /\ attempt = 0
    /\ sleep_s = 0
    /\ result = NoResult
    /\ completed_count = 0
    /\ failed_count = 0
    /\ session_costs = <<>>
    /\ response = NoResponse
    /\ endpoint_log = <<>>
    /\ PricingOff
    /\ RunOff

\* for attempt in range(1, max_retries + 1): issue the request under wait_for
StartAttempt ==
    /\ rq_pc = "ready"
    /\ attempt < max_retries
    /\ attempt' = attempt + 1
    /\ rq_pc' = "awaiting"
    /\ response' = NoResponse    \* the previous attempt's response is never read again
    /\ UNCHANGED <<sleep_s, result, completed_count, failed_count, session_costs,
                   endpoint_log>>
    /\ UNCHANGED not_client_vars

\* the endpoint answers in time: log the request, then parse and return (or raise)
Respond ==
    /\ rq_pc = "awaiting"
    /\ \E resp \in Responses :
          LET out == ProcessResponse(resp, attempt)
          IN  /\ response' = resp
              /\ endpoint_log' = Append(endpoint_log, "response")
              /\ session_costs' = Append(session_costs, LogEntry(resp, attempt))
              /\ IF out.raised
                 THEN /\ Failed(out.error)
                      /\ UNCHANGED completed_count
                 ELSE /\ completed_count' = completed_count + 1
                      /\ result' = out.value
                      /\ rq_pc' = "returned"
                      /\ UNCHANGED <<sleep_s, failed_count>>
    /\ UNCHANGED attempt
    /\ UNCHANGED not_client_vars

\* asyncio.wait_for raises TimeoutError
Timeout ==
    /\ rq_pc = "awaiting"
    /\ Failed("Timeout after " \o ToString(max_retries) \o " attempts")
    /\ endpoint_log' = Append(endpoint_log, "timeout")
    /\ UNCHANGED <<attempt, completed_count, session_costs, response>>
    /\ UNCHANGED not_client_vars

\* the completion call raises (connection error, rate limit, ...)
CallRaises ==
    /\ rq_pc = "awaiting"
    /\ Failed("Connection error.")
    /\ endpoint_log' = Append(endpoint_log, "raise")
    /\ UNCHANGED <<attempt, completed_count, session_costs, response>>
    /\ UNCHANGED not_client_vars

\* asyncio.sleep(2 ** attempt) is over: continue with the next attempt
BackoffDone ==
    /\ rq_pc = "sleeping"
    /\ rq_pc' = "ready"
    /\ sleep_s' = 0
    /\ UNCHANGED <<attempt, result, completed_count, failed_count, session_costs,
                   response, endpoint_log>>
    /\ UNCHANGED not_client_vars

ClientNext ==
    \/ StartAttempt
    \/ Respond
    \/ Timeout
    \/ CallRaises
    \/ BackoffDone

ClientSpec == ClientInit /\ [][ClientNext]_vars

----------------------------------------------------------------------------
(* config/pricing.py: one call of ModelPricing.calculate_cost on the        *)
(* 'gpt-4.1' entry of MODEL_PRICING                                         *)

\* largest of the small token counts a call is given
MaxTokens == 3

\* the token counts a call is given
TokenInputs == 0..MaxTokens \cup {1000000}

CostInit ==
    /\ pc = "off"
    /\ df = <<>>
    /\ df_stage1 = <<>>
    /\ df_stage2 = <<>>
    /\ df_clean = <<>>
    /\ verification = <<>>
    /\ cleaned_file = NoFile
    /\ df_filtered = <<>>
    /\ df_aggregated = <<>>
    /\ ClientOff
    /\ cost_pc = "called"
    /\ cost_args \in [input_tokens : TokenInputs, output_tokens : TokenInputs,
                      cached_tokens : TokenInputs]
    /\ cost_breakdown = NoBreakdown
    /\ RunOff

CalculateCost ==
    /\ cost_pc = "called"
    /\ cost_breakdown' = calculate_cost(cost_args.input_tokens, cost_args.output_tokens,
                                        cost_args.cached_tokens)
    /\ cost_pc' = "returned"
    /\ UNCHANGED cost_args
    /\ UNCHANGED <<pipeline_vars, client_vars, run_vars>>

CostNext == CalculateCost

CostSpec == CostInit /\ [][CostNext]_vars

----------------------------------------------------------------------------
(* sentiment_analysis/run_full_analysis.py: analyze_full_dataset            *)
(*                                                                          *)
(* Every event of the dataset has its own analyze_with_retry call; the      *)
(* calls of a batch run concurrently while the orchestrator waits in        *)
(* asyncio.gather, and share completed_count, failed_count and the cost     *)
(* log.  The endpoint answers a request with a well-formed body that quotes *)
(* the document in its reasoning, or the attempt times out or raises.       *)

\* largest number of events of the dataset
MaxEvents == 4

\* largest batch_size argument
MaxBatchSize == 3

\* largest save_every argument
MaxSaveEvery == 2

\* a row of the aggregated dataset
Event(n) ==
    [companyid |-> n, companyname |-> "Company " \o ToString(n),
     transcriptid |-> 100 + n, event_date |-> "2024-01-0" \o ToString(n),
     headline |-> "Q" \o ToString(n) \o " Earnings Call",
     presentation_text |-> "Presentation of event " \o ToString(n),
     total_word_count |-> 4]

\* a dataset of n events, in an order that is not the order of their ids
Dataset(n) == [i \in 1..n |-> Event(n + 1 - i)]

\* the response of the endpoint to the request made for a row
EndpointAnswer(row) ==
    [content |-> [EmptyObject EXCEPT !.sentiment = JStr("positive"),
                                     !.positive_prob = JNum(2),
                                     !.negative_prob = JNum(1),
                                     !.neutral_prob = JNum(1),
                                     !.reasoning = JStr(row.presentation_text)],
     prompt_tokens |-> 1, completion_tokens |-> 1]

\* the call of an event whose batch has not started
PendingRequest == [pc |-> "pending", attempt |-> 0, sleep_s |-> 0, result |-> NoResult]

single_call_vars == <<rq_pc, attempt, sleep_s, result, response, endpoint_log>>

run_args == <<data_file, batch_size, save_every>>

\* batch_end = min(batch_start + batch_size, self.total_count)
batch_end ==
    IF batch_start + batch_size < total_count THEN batch_start + batch_size
    ELSE total_count

\* the positions (1-based) of the rows of batch_df
Batch == (batch_start + 1)..batch_end

\* an except clause that lets the last failure propagate instead of returning
FailedRequest_raises(rq, error_msg) ==
    IF rq.attempt < max_retries
    THEN [rq EXCEPT !.pc = "sleeping", !.sleep_s = Pow2(rq.attempt)]
    ELSE [rq EXCEPT !.pc = "raised"]

\* an except clause of one call: back off and retry, or return the placeholder
FailedRequest(rq, error_msg) ==
    IF rq.attempt < max_retries
    THEN [rq EXCEPT !.pc = "sleeping", !.sleep_s = Pow2(rq.attempt)]
    ELSE [rq EXCEPT !.pc = "returned", !.result = error_result(error_msg, rq.attempt)]

\* gather resuming as soon as one call of the batch is over
GatherDone_first_completed(reqs, lo, hi) ==
    \E i \in (lo + 1)..hi : reqs[i].pc \in {"returned", "raised"}

\* asyncio.gather resumes the orchestrator when every call of the batch is over
GatherDone(reqs, lo, hi) ==
    \A i \in (lo + 1)..hi : reqs[i].pc \in {"returned", "raised"}

\* results handed over in the order the calls returned
gather_in_completion_order(reqs, lo, hi, order) ==
    [k \in 1..(hi - lo) |-> reqs[order[k]].result]

\* asyncio.gather returns the results in the order of its arguments, whatever the
\* order in which the calls returned
gather(reqs, lo, hi, order) ==
    [k \in 1..(hi - lo) |-> reqs[lo + k].result]

\* the dictionary appended to all_results for a row and its result
result_dict(row, r) ==
    [companyid |-> row.companyid, companyname |-> row.companyname,
     transcriptid |-> row.transcriptid, event_date |-> row.event_date,
     headline |-> row.headline, presentation_text |-> row.presentation_text,
     total_word_count |-> row.total_word_count,
     sentiment |-> r.sentiment, positive_prob |-> r.positive_prob,
     negative_prob |-> r.negative_prob, neutral_prob |-> r.neutral_prob,
     reasoning |-> r.reasoning, input_tokens |-> r.input_tokens,
     output_tokens |-> r.output_tokens, total_tokens |-> r.total_tokens,
     cost |-> r.cost, success |-> r.success, attempts |-> r.attempts]

\* the condition of the incremental save
ShouldSave(end, every, total) == (end % every = 0) \/ (end = total)

RunInit ==
    /\ pc = "off"
    /\ df = <<>>
    /\ df_stage1 = <<>>
    /\ df_stage2 = <<>>
    /\ df_clean = <<>>
    /\ verification = <<>>
    /\ cleaned_file = NoFile
    /\ df_filtered = <<>>
    /\ df_aggregated = <<>>
    /\ ClientOff
    /\ PricingOff
    /\ run_pc = "start"
    /\ data_file \in {NoFile} \cup {FileOf(Dataset(n)) : n \in 0..MaxEvents}
    /\ batch_size \in 1..MaxBatchSize
    /\ save_every \in 1..MaxSaveEvery
    /\ total_count = 0
    /\ batch_start = 0
    /\ requests = <<>>
    /\ completion_order = <<>>
    /\ all_results = <<>>
    /\ output_file = NoFile

\* lines 180-203: return when the file is missing, else load it
LoadDataset ==
    /\ run_pc = "start"
    /\ IF data_file.exists
       THEN /\ total_count' = Len(data_file.rows)
            /\ requests' = [i \in 1..Len(data_file.rows) |-> PendingRequest]
            /\ run_pc' = "loop"
       ELSE /\ run_pc' = "not_found"
            /\ UNCHANGED <<total_count, requests>>
    /\ UNCHANGED <<run_args, batch_start, completion_order, all_results, output_file>>
    /\ UNCHANGED <<pipeline_vars, pricing_vars, client_vars>>

\* lines 205-224: create the calls of the next batch and wait for them in gather
StartBatch ==
    /\ run_pc = "loop"
    /\ batch_start < total_count
    /\ requests' = [i \in DOMAIN requests |->
                      IF i \in Batch THEN [requests[i] EXCEPT !.pc = "ready"]
                      ELSE requests[i]]
    /\ completion_order' = <<>>
    /\ run_pc' = "gather"
    /\ UNCHANGED <<run_args, total_count, batch_start, all_results, output_file>>
    /\ UNCHANGED <<pipeline_vars, pricing_vars, client_vars>>

\* a call starts its next attempt
TaskStartAttempt(i) ==
    /\ run_pc = "gather"
    /\ requests[i].pc = "ready"
    /\ requests[i].attempt < max_retries
    /\ requests' = [requests EXCEPT ![i].pc = "awaiting",
                                    ![i].attempt = requests[i].attempt + 1]
    /\ UNCHANGED <<run_pc, run_args, total_count, batch_start, completion_order,
                   all_results, output_file>>
    /\ UNCHANGED <<pipeline_vars, pricing_vars, client_vars>>

\* an except clause that counts the failure before it decides to retry
TaskFailed_counts_every_attempt(i, error_msg) ==
    LET rq == FailedRequest(requests[i], error_msg)
    IN  /\ requests' = [requests EXCEPT ![i] = rq]
        /\ failed_count' = failed_count + 1
        /\ IF rq.pc = "sleeping"
           THEN UNCHANGED completion_order
           ELSE completion_order' = Append(completion_order, i)

\* an except clause ran in the call of event i
TaskFailed(i, error_msg) ==
    LET rq == FailedRequest(requests[i], error_msg)
    IN  /\ requests' = [requests EXCEPT ![i] = rq]
        /\ IF rq.pc = "sleeping"
           THEN UNCHANGED <<failed_count, completion_order>>
           ELSE /\ failed_count' = failed_count + 1
                /\ completion_order' = Append(completion_order, i)

\* the endpoint answers the request of event i in time
TaskRespond(i) ==
    /\ run_pc = "gather"
    /\ requests[i].pc = "awaiting"
    /\ LET resp == EndpointAnswer(data_file.rows[i])
           out == ProcessResponse(resp, requests[i].attempt)
       IN  /\ session_costs' = Append(session_costs, LogEntry(resp, requests[i].attempt))
           /\ IF out.raised
              THEN /\ TaskFailed(i, out.error)
                   /\ UNCHANGED completed_count
              ELSE /\ completed_count' = completed_count + 1
                   /\ requests' = [requests EXCEPT ![i].pc = "returned",
                                                   ![i].result = out.value]
                   /\ completion_order' = Append(completion_order, i)
                   /\ UNCHANGED failed_count
    /\ UNCHANGED <<run_pc, run_args, total_count, batch_start, all_results, output_file>>
    /\ UNCHANGED <<pipeline_vars, pricing_vars, single_call_vars>>

\* the attempt of event i times out
TaskTimeout(i) ==
    /\ run_pc = "gather"
    /\ requests[i].pc = "awaiting"
    /\ TaskFailed(i, "Timeout after " \o ToString(max_retries) \o " attempts")
    /\ UNCHANGED <<completed_count, session_costs>>
    /\ UNCHANGED <<run_pc, run_args, total_count, batch_start, all_results, output_file>>
    /\ UNCHANGED <<pipeline_vars, pricing_vars, single_call_vars>>

\* the completion call of event i raises
TaskRaises(i) ==
    /\ run_pc = "gather"
    /\ requests[i].pc = "awaiting"
    /\ TaskFailed(i, "Connection error.")
    /\ UNCHANGED <<completed_count, session_costs>>
    /\ UNCHANGED <<run_pc, run_args, total_count, batch_start, all_results, output_file>>
    /\ UNCHANGED <<pipeline_vars, pricing_vars, single_call_vars>>

\* the backoff of event i is over
TaskBackoffDone(i) ==
    /\ run_pc = "gather"
    /\ requests[i].pc = "sleeping"
    /\ requests' = [requests EXCEPT ![i].pc = "ready", ![i].sleep_s = 0]
    /\ UNCHANGED <<run_pc, run_args, total_count, batch_start, completion_order,
                   all_results, output_file>>
    /\ UNCHANGED <<pipeline_vars, pricing_vars, client_vars>>

\* the incremental save pickling the rows of the last batch instead of all_results
FinishBatch_saves_last_batch ==
    /\ run_pc = "gather"
    /\ GatherDone(requests, batch_start, batch_end)
    /\ IF \E i \in Batch : requests[i].pc = "raised"
       THEN /\ run_pc' = "crashed"
            /\ UNCHANGED <<batch_start, all_results, output_file>>
       ELSE LET batch_results == gather(requests, batch_start, batch_end,
                                        completion_order)
                rows == [k \in 1..Len(batch_results) |->
                            result_dict(data_file.rows[batch_start + k],
                                        batch_results[k])]
            IN  /\ all_results' = all_results \o rows
                /\ output_file' = IF ShouldSave(batch_end, save_every, total_count)
                                  THEN FileOf(rows)
                                  ELSE output_file
                /\ batch_start' = batch_start + batch_size
                /\ run_pc' = "loop"
    /\ UNCHANGED <<run_args, total_count, requests, completion_order>>
    /\ UNCHANGED <<pipeline_vars, pricing_vars, client_vars>>

\* lines 224-276: gather returns (or propagates an exception of a call); add the
\* metadata, append to all_results, save when the condition holds
FinishBatch ==
    /\ run_pc = "gather"
    /\ GatherDone(requests, batch_start, batch_end)
    /\ IF \E i \in Batch : requests[i].pc = "raised"
       THEN /\ run_pc' = "crashed"
            /\ UNCHANGED <<batch_start, all_results, output_file>>
       ELSE LET batch_results == gather(requests, batch_start, batch_end,
                                        completion_order)
                rows == [k \in 1..Len(batch_results) |->
                            result_dict(data_file.rows[batch_start + k],
                                        batch_results[k])]
            IN  /\ all_results' = all_results \o rows
                /\ output_file' = IF ShouldSave(batch_end, save_every, total_count)
                                  THEN FileOf(all_results')
                                  ELSE output_file
                /\ batch_start' = batch_start + batch_size
                /\ run_pc' = "loop"
    /\ UNCHANGED <<run_args, total_count, requests, completion_order>>
    /\ UNCHANGED <<pipeline_vars, pricing_vars, client_vars>>

\* lines 278-302: final statistics (a division by total_count), final save
Finish ==
    /\ run_pc = "loop"
    /\ batch_start >= total_count
    /\ IF total_count = 0
       THEN /\ run_pc' = "crashed"
            /\ UNCHANGED output_file
       ELSE /\ output_file' = FileOf(all_results)
            /\ run_pc' = "done"
    /\ UNCHANGED <<run_args, total_count, batch_start, requests, completion_order,
                   all_results>>
    /\ UNCHANGED <<pipeline_vars, pricing_vars, client_vars>>

RunNext ==
    \/ LoadDataset
    \/ StartBatch
    \/ \E i \in DOMAIN requests :
          \/ TaskStartAttempt(i)
          \/ TaskRespond(i)
          \/ TaskTimeout(i)
          \/ TaskRaises(i)
          \/ TaskBackoffDone(i)
    \/ FinishBatch
    \/ Finish

RunSpec == RunInit /\ [][RunNext]_vars

----------------------------------------------------------------------------
(* Vocabulary of the properties *)

\* the event key of a row: (company_id, headline, event_date)
EventKey(r) == <<r.companyid, r.headline, r.mostimportantdateutc>>

EventKeysOf(t) == {EventKey(t[i]) : i \in DOMAIN t}

TranscriptIdsOf(t) == {t[i].transcriptid : i \in DOMAIN t}

RowsOfEvent(t, k) == {i \in DOMAIN t : EventKey(t[i]) = k}

TranscriptIdsOfEvent(t, k) == {t[i].transcriptid : i \in RowsOfEvent(t, k)}

TextsOfEvent(t, k) == {t[i].componenttext : i \in RowsOfEvent(t, k)}

EventKeysOfTranscript(t, tid) == {EventKey(t[i]) : i \in {j \in DOMAIN t : t[j].transcriptid = tid}}

\* every event key of the table maps to exactly one transcript id
SingleTranscriptPerEvent(t) ==
    \A k \in EventKeysOf(t) : Cardinality(TranscriptIdsOfEvent(t, k)) = 1

\* the multi-version events of a table
MultiVersionEvents(t) ==
    {k \in EventKeysOf(t) : Cardinality(TranscriptIdsOfEvent(t, k)) > 1}

AfterStage2 == pc \notin {"loaded", "stage1", "crashed"}

AfterStage3 == pc \notin {"loaded", "stage1", "stage2", "crashed"}

\* the values of a row in the columns cols
Project(r, cols) == [c \in cols |-> r[c]]

\* out holds exactly the rows of in that no earlier row of in matches on Key, in order
KeepsFirstOccurrences(out, in, cols) ==
    LET kept == {i \in DOMAIN in :
                    \A j \in 1..(i - 1) : Project(in[j], cols) # Project(in[i], cols)}
    IN  /\ Len(out) = Cardinality(kept)
        /\ \A i \in kept : out[Cardinality({j \in kept : j <= i})] = in[i]

NoDuplicates(t, cols) ==
    \A i, j \in DOMAIN t : i < j => Project(t[i], cols) # Project(t[j], cols)

----------------------------------------------------------------------------
(* C1: after Stage 2, and in the cleaned output after Stage 3, every event  *)
(* key present in the table maps to exactly one transcript_id.              *)
C1_OneTranscriptPerEvent ==
    /\ AfterStage2 => SingleTranscriptPerEvent(df_stage2)
    /\ AfterStage3 => SingleTranscriptPerEvent(df_clean)
    /\ cleaned_file.exists => SingleTranscriptPerEvent(cleaned_file.rows)

\* a multi-version event of the input went through the merge and is in the saved output
C1_Witness ==
    /\ cleaned_file.exists
    /\ \E k \in MultiVersionEvents(df) : k \in EventKeysOf(cleaned_file.rows)

(* C2: in the cleaned output the mapping between event keys and transcript  *)
(* ids is 1:1: one transcript id per event key, no transcript id under two  *)
(* event keys, as many event keys as transcript ids.                        *)
C2_OneToOneMapping ==
    cleaned_file.exists =>
        /\ SingleTranscriptPerEvent(cleaned_file.rows)
        /\ \A tid \in TranscriptIdsOf(cleaned_file.rows) :
               Cardinality(EventKeysOfTranscript(cleaned_file.rows, tid)) = 1
        /\ Cardinality(EventKeysOf(cleaned_file.rows)) = Cardinality(TranscriptIdsOf(cleaned_file.rows))

(* C3: when the verification pass reports an event with several transcript *)
(* ids or a mismatch between events and transcript ids, the pipeline stops  *)
(* and the cleaned output file is not written.                              *)
VerificationFoundDefect ==
    /\ verification # <<>>
    /\ \/ verification[1] = "WARNING: events still have multiple transcript IDs"
       \/ verification[2] = "Mismatch between events and transcript IDs"

C3_FailsLoudly == VerificationFoundDefect => cleaned_file = NoFile

(* C4: for every multi-version event, the distinct texts of the event in    *)
(* the Stage-2 output are exactly the distinct texts of all its versions in *)
(* the Stage-2 input (the Stage-1 output), each of them on one row.         *)
C4_ContentPreserved ==
    pc = "stage2" =>
        \A k \in MultiVersionEvents(df_stage1) :
            /\ TextsOfEvent(df_stage2, k) = TextsOfEvent(df_stage1, k)
            /\ Cardinality(RowsOfEvent(df_stage2, k)) = Cardinality(TextsOfEvent(df_stage1, k))

\* two versions with different content, one text in both: the merge recovers both texts
C4_Witness ==
    /\ pc = "stage2"
    /\ \E k \in MultiVersionEvents(df_stage1) :
          /\ Cardinality(RowsOfEvent(df_stage1, k)) = 3
          /\ TextsOfEvent(df_stage2, k) = {"A", "B"}
          /\ Cardinality(RowsOfEvent(df_stage2, k)) = 2

(* C5: for every multi-version event, every row of the event in the Stage-2 *)
(* output carries the transcript_id of the first row of that event key in   *)
(* the Stage-2 input (the first version encountered).                       *)
FirstTranscriptId(t, k) ==
    t[CHOOSE i \in RowsOfEvent(t, k) : \A j \in RowsOfEvent(t, k) : i <= j].transcriptid

C5_FirstVersionId ==
    pc = "stage2" =>
        \A k \in MultiVersionEvents(df_stage1) :
            /\ RowsOfEvent(df_stage2, k) # {}
            /\ \A i \in RowsOfEvent(df_stage2, k) :
                   df_stage2[i].transcriptid = FirstTranscriptId(df_stage1, k)

\* tid=2:[A] then tid=1:[A,B] for one event key give transcript id 2, texts {A,B}, 2 rows
C5_Witness ==
    /\ pc = "stage2"
    /\ \E k \in MultiVersionEvents(df_stage1) :
          /\ FirstTranscriptId(df_stage1, k) = 2
          /\ TranscriptIdsOfEvent(df_stage1, k) = {1, 2}
          /\ TranscriptIdsOfEvent(df_stage2, k) = {2}
          /\ TextsOfEvent(df_stage2, k) = {"A", "B"}
          /\ Cardinality(RowsOfEvent(df_stage2, k)) = 2

(* C6: Stage 1 keeps a row exactly when no earlier input row has the same   *)
(* (transcript_id, text); its output has no duplicate pair; Stage 1 applied *)
(* to its own output changes nothing.                                       *)
TranscriptText == {"transcriptid", "componenttext"}

C6_Stage1FirstWins ==
    pc = "stage1" =>
        /\ KeepsFirstOccurrences(df_stage1, df, TranscriptText)
        /\ NoDuplicates(df_stage1, TranscriptText)
        /\ Stage1Table(df_stage1) = df_stage1

\* a later duplicate within one transcript was dropped
C6_Witness ==
    /\ pc = "stage1"
    /\ Len(df_stage1) < Len(df)
    /\ \E i, j \in DOMAIN df : i < j /\ Project(df[i], TranscriptText) = Project(df[j], TranscriptText)

(* C7: Stage 3 keeps, for each (company_id, text), exactly the first row of *)
(* the Stage-2 output carrying it: no duplicate (company_id, text), hence   *)
(* no duplicate (company_id, headline, event_date, text), and never more    *)
(* rows than the Stage-2 output.                                            *)
CompanyText == {"companyid", "componenttext"}

EventText == {"companyid", "headline", "mostimportantdateutc", "componenttext"}

C7_Stage3FirstWins ==
    pc = "stage3" =>
        /\ KeepsFirstOccurrences(df_clean, df_stage2, CompanyText)
        /\ NoDuplicates(df_clean, CompanyText)
        /\ NoDuplicates(df_clean, EventText)
        /\ Len(df_clean) <= Len(df_stage2)

\* a text repeated in two events of one company survived Stage 2 and was dropped by Stage 3
C7_Witness ==
    /\ pc = "stage3"
    /\ Len(df_clean) < Len(df_stage2)
    /\ \E i, j \in DOMAIN df_stage2 :
          /\ i < j
          /\ Project(df_stage2[i], CompanyText) = Project(df_stage2[j], CompanyText)
          /\ EventKey(df_stage2[i]) # EventKey(df_stage2[j])

(* C8: every aggregated document's text is its filtered components' texts  *)
(* joined by a double newline in strictly ascending component_order, and    *)
(* the aggregation gives the same documents for every order of the rows of  *)
(* the cleaned table.                                                       *)
Permuted(t, p) == [i \in DOMAIN t |-> t[p[i]]]

StrictlyAscendingOrder(group) ==
    \A i, j \in DOMAIN group : i < j => group[i].componentorder < group[j].componentorder

C8_AggregationOrder ==
    pc = "aggregated" =>
        /\ \A d \in DOMAIN df_aggregated :
              LET group == Group(df_filtered, df_aggregated[d].transcriptid)
              IN  /\ StrictlyAscendingOrder(group)
                  /\ df_aggregated[d].presentation_text =
                         join([i \in DOMAIN group |-> group[i].componenttext])
        /\ \A p \in Permutations(DOMAIN cleaned_file.rows) :
              AggregateTable(sort_values(FilterTable(Permuted(cleaned_file.rows, p))))
                  = df_aggregated

(* C9: every event key with an Executives / Presenter Speech component in   *)
(* the cleaned set yields exactly one aggregated document, and no           *)
(* aggregated document combines components of two event keys.               *)
DocumentsOfEvent(k) ==
    {d \in DOMAIN df_aggregated :
        k \in EventKeysOfTranscript(df_filtered, df_aggregated[d].transcriptid)}

C9_OneDocumentPerEvent ==
    pc = "aggregated" =>
        /\ \A k \in EventKeysOf(FilterTable(cleaned_file.rows)) :
              Cardinality(DocumentsOfEvent(k)) = 1
        /\ \A d \in DOMAIN df_aggregated :
              Cardinality(EventKeysOfTranscript(df_filtered,
                                                df_aggregated[d].transcriptid)) = 1

(* C10: the three probabilities of every dictionary the classification      *)
(* client returns sum to 1.0 within 1e-6; the probabilities being multiples *)
(* of 0.001, that is a sum of exactly 1000 thousandths.                     *)
C10_ProbabilitiesSumToOne ==
    rq_pc = "returned" =>
        result.positive_prob + result.negative_prob + result.neutral_prob = 1000

(* C11: whatever numbers the endpoint returns for the three probability     *)
(* fields, the three probabilities of the returned dictionary are           *)
(* non-negative.                                                            *)
C11_ProbabilitiesNonNegative ==
    rq_pc = "returned" =>
        /\ result.positive_prob >= 0
        /\ result.negative_prob >= 0
        /\ result.neutral_prob >= 0

----------------------------------------------------------------------------
(* Vocabulary of the client's properties *)

\* the call returned the dictionary built from the response it holds
ReturnedSuccess == rq_pc = "returned" /\ result.success

\* the body the dictionary was built from, after json.loads and its except clause
ParsedBody == Parse(response.content)

Unparsable == response.content.kind = "unparsable"

ProbabilityFields(body) == <<body.positive_prob, body.negative_prob, body.neutral_prob>>

SomeFieldAbsent(body) ==
    \/ body.sentiment = Absent
    \/ \E i \in 1..3 : ProbabilityFields(body)[i] = Absent

AllProbabilitiesAbsent(body) == \A i \in 1..3 : ProbabilityFields(body)[i] = Absent

DefaultProbabilities ==
    /\ result.positive_prob = 0
    /\ result.negative_prob = 0
    /\ result.neutral_prob = 1000

(* C12 as stated: when the body is unparsable, or any one of sentiment,     *)
(* positive_prob, negative_prob, neutral_prob is absent from it, the        *)
(* returned dictionary has sentiment neutral and probabilities (0, 0, 1).   *)
C12_DefaultsWhenAnyFieldAbsent ==
    (ReturnedSuccess /\ (Unparsable \/ SomeFieldAbsent(response.content))) =>
        /\ result.sentiment = "neutral"
        /\ DefaultProbabilities

(* C12 amended: when the body is unparsable or lacks the sentiment field    *)
(* the returned sentiment is neutral, and when the body is unparsable or    *)
(* lacks all three probability fields the probabilities are (0, 0, 1).      *)
C12_DefaultsPerField ==
    ReturnedSuccess =>
        /\ (Unparsable \/ ParsedBody.sentiment = Absent) => result.sentiment = "neutral"
        /\ (Unparsable \/ AllProbabilitiesAbsent(ParsedBody)) => DefaultProbabilities

\* a body with a sentiment and none of the probability fields was answered with (0, 0, 1)
C12_Witness ==
    /\ ReturnedSuccess
    /\ response.content.kind = "object"
    /\ response.content.sentiment = JStr("positive")
    /\ AllProbabilitiesAbsent(response.content)
    /\ result.sentiment = "positive"
    /\ DefaultProbabilities

\* a probability field float() accepts, or one that is missing
NumericOrAbsent(v) == v = Absent \/ Floatable(v)

\* unparsable JSON, a body that is not an object, missing fields, or fields of an
\* invalid value or type
Malformed(body) ==
    \/ body.kind \in {"unparsable", "array"}
    \/ SomeFieldAbsent(body)
    \/ body.sentiment.kind # "str"
    \/ Lower(body.sentiment.str) \notin {"positive", "negative", "neutral"}
    \/ \E i \in 1..3 : ~NumericOrAbsent(ProbabilityFields(body)[i])

(* C13: a malformed classification output is recovered on the attempt that  *)
(* received it by default substitution: once such a response has arrived    *)
(* the call has returned a dictionary that is not an error placeholder,     *)
(* without backing off for another attempt.                                 *)
C13_MalformedOutputRecovered ==
    (response # NoResponse /\ Malformed(response.content)) => ReturnedSuccess

\* every attempt so far ended in a timeout or in an exception of the call
EndpointAlwaysFailed == \A i \in DOMAIN endpoint_log : endpoint_log[i] \in {"timeout", "raise"}

\* the error the last attempt ended with, as the placeholder reports it
LastErrorText ==
    IF endpoint_log[Len(endpoint_log)] = "timeout"
    THEN "Error: Timeout after 3 attempts"
    ELSE "Error: Connection error."

(* C14: with an endpoint that times out (or raises) on every attempt,       *)
(* analyze_with_retry makes exactly max_retries attempts and then returns   *)
(* the placeholder: success false, sentiment neutral, zero tokens and cost, *)
(* attempts = max_retries, the error in the reasoning.  It does not return  *)
(* before the last attempt and makes no attempt after it.                   *)
C14_RetryBound ==
    /\ Len(endpoint_log) <= max_retries
    /\ (EndpointAlwaysFailed /\ Len(endpoint_log) < max_retries) => rq_pc # "returned"
    /\ (EndpointAlwaysFailed /\ Len(endpoint_log) = max_retries) =>
          /\ rq_pc = "returned"
          /\ attempt = max_retries
          /\ result.success = FALSE
          /\ result.sentiment = "neutral"
          /\ result.input_tokens = 0 /\ result.output_tokens = 0
          /\ result.total_tokens = 0 /\ result.cost = 0
          /\ result.attempts = max_retries
          /\ result.reasoning = LastErrorText
          /\ failed_count = 1 /\ completed_count = 0

\* three timeouts in a row ended in the placeholder
C14_Witness ==
    /\ endpoint_log = <<"timeout", "timeout", "timeout">>
    /\ rq_pc = "returned"
    /\ result.success = FALSE
    /\ result.attempts = 3

\* the records of the cost log written for attempt n of the call
RecordsOfAttempt(n) == {i \in DOMAIN session_costs : session_costs[i].attempt = n}

\* the attempt's request was sent and the endpoint answered, or was still being
\* waited for when the deadline passed (an exception of the call may be a failure
\* to connect)
ReachedEndpoint(n) == endpoint_log[n] \in {"response", "timeout"}

(* C16: the attempt that completed the call, the successful one or the      *)
(* final failed one, has exactly one record in the cost log when it reached *)
(* the endpoint.                                                            *)
C16_OneRecordPerCompletedAttempt ==
    (rq_pc = "returned" /\ ReachedEndpoint(attempt)) =>
        Cardinality(RecordsOfAttempt(attempt)) = 1

(* C17 as stated: for all token counts the total cost is                    *)
(* (input - cached)/1e6 * input_price + cached/1e6 * cached_price +         *)
(* output/1e6 * output_price, and it is the sum of the three components.    *)
C17_CostFormula ==
    cost_pc = "returned" =>
        /\ cost_breakdown.total_cost =
              (cost_args.input_tokens - cost_args.cached_tokens) * input_price
              + cost_args.cached_tokens * cached_input_price
              + cost_args.output_tokens * output_price
        /\ cost_breakdown.total_cost =
              cost_breakdown.input_cost + cost_breakdown.cached_cost
              + cost_breakdown.output_cost

(* C17 amended: the formula holds for all token counts with cached_tokens   *)
(* not above input_tokens; with more cached than input tokens the input     *)
(* component is 0 instead of negative.  The total is always the sum of the  *)
(* components, and 1,000,000 input tokens alone cost 3.00 dollars.          *)
C17_CostFormulaClamped ==
    cost_pc = "returned" =>
        /\ cost_args.cached_tokens <= cost_args.input_tokens =>
              cost_breakdown.total_cost =
                 (cost_args.input_tokens - cost_args.cached_tokens) * input_price
                 + cost_args.cached_tokens * cached_input_price
                 + cost_args.output_tokens * output_price
        /\ cost_args.cached_tokens > cost_args.input_tokens =>
              cost_breakdown.total_cost =
                 cost_args.cached_tokens * cached_input_price
                 + cost_args.output_tokens * output_price
        /\ cost_breakdown.total_cost =
              cost_breakdown.input_cost + cost_breakdown.cached_cost
              + cost_breakdown.output_cost
        /\ cost_args = [input_tokens |-> 1000000, output_tokens |-> 0, cached_tokens |-> 0]
              => cost_breakdown.input_cost = 300000000

\* a call with cached tokens, fewer than the input tokens, returned its breakdown
C17_Witness ==
    /\ cost_pc = "returned"
    /\ cost_args = [input_tokens |-> 3, output_tokens |-> 2, cached_tokens |-> 1]
    /\ cost_breakdown.total_cost = 2 * 300 + 75 + 2 * 1200

----------------------------------------------------------------------------
(* Vocabulary of the orchestrator's properties *)

\* the events whose call has been created and has not returned
Outstanding == {i \in DOMAIN requests : requests[i].pc \in {"ready", "awaiting", "sleeping"}}

\* the events whose call has been created
Issued == {i \in DOMAIN requests : requests[i].pc # "pending"}

\* the number (from 0) of the batch an event belongs to
BatchOf(i) == (i - 1) \div batch_size

\* the call of event i returned the error placeholder
FailedFinally(i) == requests[i].pc = "returned" /\ ~requests[i].result.success

\* the call of event i returned a classification
Succeeded(i) == requests[i].pc = "returned" /\ requests[i].result.success

\* the number of events of the batches gathered so far
Gathered == IF batch_start < total_count THEN batch_start ELSE total_count

(* C15: a failure or timeout of one event's request never aborts its batch  *)
(* and never cancels or changes its siblings: no step of a failing call     *)
(* changes another call or the orchestrator's position, the run never       *)
(* crashes over a failed document, and after every gather all_results holds *)
(* exactly one result per document of the batches gathered, each one the    *)
(* dictionary its own call returned.                                        *)
C15_FailureStaysLocalInv ==
    /\ run_pc = "crashed" => total_count = 0
    /\ run_pc \in {"loop", "done"} =>
          /\ Len(all_results) = Gathered
          /\ \A k \in DOMAIN all_results :
                /\ requests[k].pc = "returned"
                /\ all_results[k].attempts = requests[k].result.attempts
                /\ all_results[k].success = requests[k].result.success
                /\ all_results[k].reasoning = requests[k].result.reasoning

C15_FailureStaysLocalStep ==
    \A i \in DOMAIN requests :
        (requests'[i] # requests[i] /\ requests'[i].pc \in {"sleeping", "returned"}
         /\ ~requests'[i].result.success) =>
            /\ \A j \in DOMAIN requests \ {i} : requests'[j] = requests[j]
            /\ run_pc' = run_pc
            /\ all_results' = all_results

C18_SequentialBatches ==
    /\ Cardinality(Outstanding) <= batch_size
    /\ \A i \in DOMAIN requests : \A j \in Issued :
          BatchOf(i) < BatchOf(j) => requests[i].pc = "returned"

\* the second batch is under way with as many outstanding requests as batch_size
C18_Witness ==
    /\ run_pc = "gather"
    /\ batch_start = batch_size
    /\ batch_size >= 2
    /\ Cardinality(Outstanding) = batch_size
    /\ \E i \in Outstanding : requests[i].pc = "awaiting"

(* C19: each row of the results table pairs an input event's metadata with  *)
(* the result of the call made for that event's document, whatever the      *)
(* order in which the calls of a batch returned, and the table lists the    *)
(* events in input order.                                                   *)
C19_ResultsPairedInInputOrder ==
    /\ Len(all_results) <= total_count
    /\ \A k \in DOMAIN all_results :
          LET row == data_file.rows[k]
              r == all_results[k]
          IN  /\ r.companyid = row.companyid
              /\ r.transcriptid = row.transcriptid
              /\ r.presentation_text = row.presentation_text
              /\ r.success => r.reasoning = row.presentation_text
              /\ r.success = requests[k].result.success
              /\ r.attempts = requests[k].result.attempts
              /\ r.reasoning = requests[k].result.reasoning

\* a batch was gathered whose second call returned before its first, with
\* different outcomes
C19_Witness ==
    /\ run_pc = "loop"
    /\ Len(all_results) >= 2
    /\ Len(completion_order) >= 2
    /\ completion_order[1] > completion_order[2]
    /\ all_results[completion_order[1]].success
    /\ all_results[completion_order[1]].attempts # all_results[completion_order[2]].attempts

\* the rows of the results table on disk
SavedRows == IF output_file.exists THEN output_file.rows ELSE <<>>

\* the orchestrator is between two batches, or past the last one
BetweenBatches == run_pc = "loop" /\ batch_start > 0

\* the events processed since the last write are at least a checkpoint interval
IntervalReached == Len(all_results) - Len(SavedRows) >= save_every

(* C20: for all batch_size and save_every, after each completed batch, and  *)
(* whenever the events processed since the last write have reached          *)
(* save_every, the accumulated results are written to storage before the    *)
(* next batch starts.                                                       *)
C20_SavedBeforeNextBatch ==
    BetweenBatches =>
        /\ SavedRows = all_results
        /\ IntervalReached => SavedRows = all_results

\* the run of analyze_full_dataset is over: it returned or an exception left it
RunOver == run_pc \in {"done", "crashed"}

(* C21: every run that loaded its dataset, whatever the dataset size (an    *)
(* empty one included) and whatever the alignment of total_count with       *)
(* batch_size and save_every, ends with the complete results table written  *)
(* to storage.                                                              *)
C21_FinalWrite ==
    RunOver =>
        /\ output_file.exists
        /\ output_file.rows = all_results
        /\ Len(output_file.rows) = total_count

\* the exit status of the process: asyncio.run(main()) returns normally unless an
\* exception left analyze_full_dataset
ExitStatus == IF run_pc = "crashed" THEN 1 ELSE 0

(* C22: when the orchestrator's input file is missing the run is fatal at   *)
(* startup: no request is issued, no results file is written and the        *)
(* process halts with a non-zero exit status.                               *)
C22_MissingInputIsFatal ==
    (run_pc # "start" /\ ~data_file.exists) =>
        /\ Issued = {}
        /\ ~output_file.exists
        /\ session_costs = <<>>
        /\ ExitStatus # 0

\* the rows of the accumulated results with the given value of success
RowsWithSuccess(b) == {k \in DOMAIN all_results : all_results[k].success = b}

\* PENDING, IN_BATCH, SUCCEEDED or FAILED
EventState(rq) ==
    IF rq.pc = "pending" THEN "PENDING"
    ELSE IF rq.pc # "returned" THEN "IN_BATCH"
    ELSE IF rq.result.success THEN "SUCCEEDED" ELSE "FAILED"

\* the moves PENDING -> IN_BATCH -> {SUCCEEDED, FAILED}, or none
EventMove(a, b) ==
    \/ a = b
    \/ a = "PENDING" /\ b = "IN_BATCH"
    \/ a = "IN_BATCH" /\ b \in {"SUCCEEDED", "FAILED"}

(* C23: every event moves PENDING -> IN_BATCH -> exactly one of SUCCEEDED / *)
(* FAILED, once: the counters count the calls that returned, and at         *)
(* completion the results table has one row per input event with           *)
(* completed_count + failed_count = total_count, completed_count the number *)
(* of rows with success true and failed_count the number with success       *)
(* false, under every interleaving of the concurrent requests.              *)
C23_CountsInv ==
    /\ completed_count = Cardinality({i \in DOMAIN requests : Succeeded(i)})
    /\ failed_count = Cardinality({i \in DOMAIN requests : FailedFinally(i)})
    /\ run_pc = "done" =>
          /\ Len(all_results) = total_count
          /\ completed_count + failed_count = total_count
          /\ completed_count = Cardinality(RowsWithSuccess(TRUE))
          /\ failed_count = Cardinality(RowsWithSuccess(FALSE))

C23_MovesStep ==
    \A i \in DOMAIN requests :
        /\ EventMove(EventState(requests[i]), EventState(requests'[i]))
        /\ requests[i].pc = "returned" => requests'[i] = requests[i]

C23_EventStateMachine == [](C23_CountsInv) /\ [][C23_MovesStep]_vars

\* a run completed in which one event succeeded after a retry and another failed
C23_Witness ==
    /\ run_pc = "done"
    /\ total_count >= 2
    /\ \E k \in DOMAIN all_results : all_results[k].success /\ all_results[k].attempts = 2
    /\ \E k \in DOMAIN all_results : ~all_results[k].success

----------------------------------------------------------------------------
(* Further properties of the cleaning script *)

\* the columns of the raw table
RawColumns ==
    {"companyid", "headline", "mostimportantdateutc", "transcriptid", "componenttext",
     "speakertypename", "transcriptcomponenttypename", "componentorder"}

\* the row equals a raw row in every column but, possibly, transcriptid
RawButTranscriptId(r) ==
    \E i \in DOMAIN df :
        \A c \in RawColumns \ {"transcriptid"} : r[c] = df[i][c]

\* the row is a raw row
RawRow_(r) == \E i \in DOMAIN df : r = df[i]

\* the rows of a table have exactly the raw columns, and each is a raw row, or
\* a raw row of a multi-version event of the Stage-2 input with another transcriptid
OnlyTranscriptIdRewritten(t) ==
    \A k \in DOMAIN t :
        /\ DOMAIN t[k] = RawColumns
        /\ RawButTranscriptId(t[k])
        /\ RawRow_(t[k]) \/ EventKey(t[k]) \in MultiVersionEvents(df_stage1)

\* the events of the Stage-2 input with one version
SingleVersionEvents == EventKeysOf(df_stage1) \ MultiVersionEvents(df_stage1)

(* C24: the stages only delete rows and, in Stage 2, rewrite transcript_id  *)
(* of rows of multi-version events: the rows of a single-version event pass *)
(* through Stage 2 unchanged, every other field of every surviving row is   *)
(* as in the raw input, and no event_id column remains in the output.       *)
C24_FrameOfTheStages ==
    /\ AfterStage2 =>
          /\ Len(df_stage2) <= Len(df_stage1) /\ Len(df_stage1) <= Len(df)
          /\ OnlyTranscriptIdRewritten(df_stage2)
          /\ \A k \in SingleVersionEvents :
                Pick(df_stage2, RowsOfEvent(df_stage2, k))
                    = DropEventId(Pick(df_stage1, RowsOfEvent(df_stage1, k)))
    /\ AfterStage3 =>
          /\ Len(df_clean) <= Len(df_stage2)
          /\ OnlyTranscriptIdRewritten(df_clean)
    /\ cleaned_file.exists => OnlyTranscriptIdRewritten(cleaned_file.rows)

\* the saved output holds an untouched row of a single-version event and a row of a
\* multi-version event whose transcriptid was rewritten
C24_Witness ==
    /\ cleaned_file.exists
    /\ \E k \in DOMAIN cleaned_file.rows :
          /\ EventKey(cleaned_file.rows[k]) \in SingleVersionEvents
          /\ RawRow_(cleaned_file.rows[k])
    /\ \E k \in DOMAIN cleaned_file.rows :
          /\ EventKey(cleaned_file.rows[k]) \in MultiVersionEvents(df_stage1)
          /\ ~RawRow_(cleaned_file.rows[k])

----------------------------------------------------------------------------
(* Further properties of the client *)

\* 2^k seconds, for the attempts a backoff can follow
BackoffSeconds(k) == IF k = 1 THEN 2 ELSE IF k = 2 THEN 4 ELSE 8

\* the step ends the attempt under way in a failure
AttemptFails == rq_pc = "awaiting" /\ ~(rq_pc' = "returned" /\ result'.success)

(* C25: after a failed attempt k < max_retries the client sleeps 2^k        *)
(* seconds; attempt k + 1 starts only once that sleep is over; after the    *)
(* final attempt no backoff is taken and the placeholder is returned.       *)
C25_BackoffInv ==
    rq_pc = "sleeping" => (attempt < max_retries /\ sleep_s = BackoffSeconds(attempt))

C25_BackoffStep ==
    /\ (AttemptFails /\ attempt < max_retries) =>
          (rq_pc' = "sleeping" /\ sleep_s' = BackoffSeconds(attempt) /\ attempt' = attempt)
    /\ (AttemptFails /\ attempt = max_retries) =>
          (rq_pc' = "returned" /\ ~result'.success /\ sleep_s' = 0)
    /\ rq_pc = "sleeping" => (attempt' = attempt /\ rq_pc' = "ready" /\ sleep_s' = 0)
    /\ attempt' # attempt =>
          (attempt' = attempt + 1 /\ rq_pc = "ready" /\ sleep_s = 0)

C25_ExponentialBackoff == [](C25_BackoffInv) /\ [][C25_BackoffStep]_vars

\* the third attempt is ready to start after backoffs of 2 and 4 seconds
C25_Witness ==
    /\ rq_pc = "ready"
    /\ attempt = 2
    /\ sleep_s = 0
    /\ endpoint_log = <<"timeout", "raise">>

\* the values of a row outside transcriptid (and the temporary event_id)
ButTranscriptId(r) == Project(r, RawColumns \ {"transcriptid"})

\* the rows of out are rows of in, transcriptid apart, in the same relative order
OrderPreserved(out, in) ==
    \E f \in [DOMAIN out -> DOMAIN in] :
        /\ \A p, q \in DOMAIN out : p < q => f[p] < f[q]
        /\ \A p \in DOMAIN out : ButTranscriptId(out[p]) = ButTranscriptId(in[f[p]])

\* the first row of a table with the company and text of r
FirstOfCompanyText(t, r) ==
    t[CHOOSE i \in DOMAIN t :
         /\ Project(t[i], Stage3Key) = Project(r, Stage3Key)
         /\ \A j \in 1..(i - 1) : Project(t[j], Stage3Key) # Project(r, Stage3Key)]

(* C26: Stage 2 preserves the relative input order of the rows it keeps, so *)
(* the row Stage 3 retains for each (company_id, text) is the row that      *)
(* occurs first in the Stage-1 order.                                       *)
C26_Stage2KeepsOrder ==
    /\ AfterStage2 => OrderPreserved(df_stage2, df_stage1)
    /\ AfterStage3 =>
          \A k \in DOMAIN df_clean :
              ButTranscriptId(df_clean[k])
                  = ButTranscriptId(FirstOfCompanyText(df_stage1, df_clean[k]))

(* C27: the Stage-1 uniqueness survives Stage 2: after Stage 2, with the    *)
(* transcript_id of merged events reassigned, no two rows share the same    *)
(* (transcript_id, text) pair, for every input table.                       *)
C27_Stage2KeepsUniqueness ==
    AfterStage2 => NoDuplicates(df_stage2, Stage1Key)

CompanyTexts(t) == {Project(t[i], Stage3Key) : i \in DOMAIN t}

(* C28: the three stages lose no unique content: the set of distinct        *)
(* (company_id, text) pairs of the cleaned output equals the set of         *)
(* distinct (company_id, text) pairs of the raw input, for every input.     *)
C28_NoUniqueContentLost ==
    AfterStage3 => CompanyTexts(df_clean) = CompanyTexts(df)

\* s is an initial segment of t
PrefixOf(s, t) == Len(s) <= Len(t) /\ SubSeq(t, 1, Len(s)) = s

\* n events make up whole batches of the dataset
BatchBoundary(n) == n % batch_size = 0 \/ n = total_count

(* C29: every checkpoint write stores the results of exactly the events of  *)
(* all batches completed so far, in input order (a prefix of the dataset of *)
(* length batch_end); during a run the persisted results table never        *)
(* shrinks and never loses or changes a row an earlier write contained.     *)
C29_CheckpointInv ==
    output_file.exists =>
        /\ PrefixOf(output_file.rows, all_results)
        /\ Len(output_file.rows) <= total_count
        /\ BatchBoundary(Len(output_file.rows))
        /\ \A k \in DOMAIN output_file.rows :
              output_file.rows[k] = result_dict(data_file.rows[k], requests[k].result)

C29_WriteStep ==
    /\ PrefixOf(SavedRows, SavedRows')
    /\ output_file' # output_file =>
          /\ output_file' = FileOf(all_results')
          /\ Len(all_results') = Gathered'

C29_CheckpointsGrow == [](C29_CheckpointInv) /\ [][C29_WriteStep]_vars

C29_Witness ==
    /\ run_pc = "done"
    /\ save_every = 1
    /\ total_count > 2 * batch_size
    /\ Len(output_file.rows) = total_count
    /\ \E k \in DOMAIN output_file.rows : ~output_file.rows[k].success
    /\ \E k \in DOMAIN output_file.rows : output_file.rows[k].success

\* the sum of field f over the entries of a sequence of records
RECURSIVE SumOf(_, _)
SumOf(s, f) == IF s = <<>> THEN 0 ELSE s[1][f] + SumOf(Tail(s), f)

(* C30: the cost log reconciles with the result of a document: a result     *)
(* with success = true has exactly one cost-log entry in the session, with  *)
(* the result's input and output token counts; a result with success =      *)
(* false has no cost-log entry; hence the logged token totals equal the     *)
(* token totals of the results.                                             *)
C30_CostLogReconciles ==
    rq_pc = "returned" =>
        /\ IF result.success
           THEN /\ Len(session_costs) = 1
                /\ session_costs[1].input_tokens = result.input_tokens
                /\ session_costs[1].output_tokens = result.output_tokens
           ELSE session_costs = <<>>
        /\ SumOf(session_costs, "input_tokens") = result.input_tokens
        /\ SumOf(session_costs, "output_tokens") = result.output_tokens

====
